---- MODULE Spec2Model ----
(***************************************************************************)
(* Invoice-AI backend (src/api.py): the invoice endpoints over the source  *)
(* bucket, the target bucket and the Firestore collection "invoices", and  *)
(* the chat endpoints over the ADK session database.                       *)
(*                                                                         *)
(* Every handler is an `async def` that never awaits between its SDK calls *)
(* (the storage and Firestore clients are synchronous), so one handler is  *)
(* one atomic action.  Each SDK call may raise: the calls that raise in a  *)
(* request are an input of its action (faults).                            *)
(*                                                                         *)
(* A file name is a sequence of tokens; the token "." is the extension     *)
(* separator and every other token is a non-empty string free of "." and   *)
(* of "/".                                                                 *)
(***************************************************************************)
EXTENDS Integers, Sequences, FiniteSets, TLC

VARIABLES
    source,     \* SOURCE_BUCKET: blob name -> bytes
    target,     \* TARGET_BUCKET: blob name -> bytes
    invoices,   \* Firestore collection "invoices": document id -> fields
    sessions,   \* ADK session database: session id -> [user_id, events, last_update_time]
    nextId,     \* the number of session ids handed out so far
    now,        \* the wall clock
    req,        \* the request handled by the last step, with the SDK calls that raised
    resp        \* the response to it

vars == <<source, target, invoices, sessions, nextId, now, req, resp>>

----------------------------------------------------------------------------
(* Bounds *)

MaxTime == 1
MaxSessions == 2
MaxEvents == 4

----------------------------------------------------------------------------
(* Inputs *)

Filenames == { <<"a", ".", "pdf">>, <<"a", ".", "b", ".", "pdf">> }
ViewNames == { <<"a">>, <<"a", ".", "b">>, <<"c">> }
DeleteNames == Filenames \cup { <<".", "pdf">> }
TargetNames == { <<"a", ".", "json">>, <<"a", ".", "b", ".", "json">>,
                 <<".", "pdf", ".", "json">> }
Bytes == { "x", "y" }

SOURCE_BUCKET == "source-bucket"

Idle == [op |-> "none"]

----------------------------------------------------------------------------
(* Stores: a bucket or a collection is a function from the names it holds *)

Put(store, k, v) == [x \in DOMAIN store \cup {k} |-> IF x = k THEN v ELSE store[x]]

Remove(store, k) == [x \in DOMAIN store \ {k} |-> store[x]]

Empty == [x \in {} |-> "none"]

exists(store, k) == k \in DOMAIN store

----------------------------------------------------------------------------
(* Exceptions and responses *)

\* An exception is a record; its type decides which except clause catches it.
\* exceptions.NotFound is google.api_core's; every other SDK failure is a
\* plain Exception.
SdkError(call) == [type |-> "Exception", text |-> "sdk call failed", arg |-> <<call>>]

NotFound(call) == [type |-> "NotFound", text |-> "404 not found", arg |-> <<call>>]

ValueError(text, arg) == [type |-> "ValueError", text |-> text, arg |-> arg]

\* detail = f"{prefix}{e}": the prefix, then the text of the exception.
Detail(prefix, e) == [prefix |-> prefix, exc |-> e]

NoExc == [type |-> "none"]

HTTPException(status_code, detail) ==
    [type |-> "HTTPException", status_code |-> status_code, detail |-> detail]

\* FastAPI's rendering of a raised HTTPException and of a returned value.
Raise(e) == [code |-> e.status_code, body |-> [detail |-> e.detail]]

Return(body) == [code |-> 200, body |-> body]

----------------------------------------------------------------------------
(* POST /upload-invoice *)

\* The SDK calls that raise in one request.  The handler stops at the first
\* call that raises, except that blob.delete() runs after invoice_ref.set()
\* raised.
UploadFaults == { {}, {"blob.exists"}, {"blob.upload_from_file"},
                  {"invoice_ref.set"}, {"invoice_ref.set", "blob.delete"} }

GcsUri(bucket_name, filename) == <<"gs://", bucket_name, "/">> \o filename

UploadRecord_NoUri(filename, gcs_uri) ==
    [ filename |-> filename,
      status |-> "UPLOADED",
      created_at |-> now,
      last_modified |-> now,
      gcs_source_uri |-> <<"gs://", SOURCE_BUCKET, "/">> ]

UploadRecord(filename, gcs_uri) ==
    [ filename |-> filename,
      status |-> "UPLOADED",
      created_at |-> now,
      last_modified |-> now,
      gcs_source_uri |-> gcs_uri ]

\* except Exception as db_e: blob.delete(); raise db_e
\* The bucket after the rollback and the exception that leaves the block:
\* db_e, or blob.delete()'s own when the rollback raises.
RollbackUpload_NoDelete(bucket, filename, db_e, faults) ==
    [bucket |-> bucket, exc |-> db_e]

RollbackUpload(bucket, filename, db_e, faults) ==
    IF "blob.delete" \in faults
    THEN [bucket |-> bucket, exc |-> SdkError("blob.delete")]
    ELSE [bucket |-> Remove(bucket, filename), exc |-> db_e]

\* The body of the outer try: the stores it leaves, and what it returns or raises.
UploadBody(file, faults) ==
    LET filename == file.filename
        gcs_uri == GcsUri(SOURCE_BUCKET, filename)
        Raised(src, e) ==
            [source |-> src, invoices |-> invoices, exc |-> e, value |-> NoExc]
    IN  IF "blob.exists" \in faults
        THEN Raised(source, SdkError("blob.exists"))
        ELSE IF exists(source, filename)
        THEN Raised(source, ValueError("already exists", filename))
        ELSE IF "blob.upload_from_file" \in faults
        THEN Raised(source, SdkError("blob.upload_from_file"))
        ELSE LET uploaded == Put(source, filename, file.data)
             IN  IF "invoice_ref.set" \in faults
                 THEN LET rb == RollbackUpload(uploaded, filename,
                                               SdkError("invoice_ref.set"), faults)
                      IN  Raised(rb.bucket, rb.exc)
                 ELSE [ source |-> uploaded,
                        invoices |-> Put(invoices, filename,
                                         UploadRecord(filename, gcs_uri)),
                        exc |-> NoExc,
                        value |-> [ status |-> "success",
                                    gcs_uri |-> gcs_uri,
                                    filename |-> filename ] ]

upload_invoice_Overwrite(file, faults) ==
    LET filename == file.filename
        b == UploadBody(file, faults)
    IN  IF b.exc # NoExc /\ b.exc.type = "ValueError"
        THEN [ source |-> Put(source, filename, file.data),
               invoices |-> Put(invoices, filename,
                                UploadRecord(filename, GcsUri(SOURCE_BUCKET, filename))),
               resp |-> Return([ status |-> "success",
                                 gcs_uri |-> GcsUri(SOURCE_BUCKET, filename),
                                 filename |-> filename ]) ]
        ELSE [ source |-> b.source,
               invoices |-> b.invoices,
               resp |-> IF b.exc = NoExc
                        THEN Return(b.value)
                        ELSE Raise(HTTPException(400, Detail("", b.exc))) ]

\* except Exception as e: raise HTTPException(status_code=400, detail=str(e))
upload_invoice(file, faults) ==
    LET b == UploadBody(file, faults)
    IN  [ source |-> b.source,
          invoices |-> b.invoices,
          resp |-> IF b.exc = NoExc
                   THEN Return(b.value)
                   ELSE Raise(HTTPException(400, Detail("", b.exc))) ]

UploadInvoice ==
    \E filename \in Filenames, data \in Bytes, faults \in UploadFaults :
        LET r == upload_invoice([filename |-> filename, data |-> data], faults)
        IN  /\ source' = r.source
            /\ invoices' = r.invoices
            /\ resp' = r.resp
            /\ req' = [ op |-> "upload_invoice", filename |-> filename,
                        data |-> data, faults |-> faults ]
            /\ UNCHANGED <<target, sessions, nextId, now>>

----------------------------------------------------------------------------
(* GET /invoices/view/{filename} *)

\* The SDK call that raises in one request, if any; with "NotFound" it
\* raises exceptions.NotFound.
ViewFaults == { {}, {"blob.exists"}, {"blob.download_as_bytes"},
                {"blob.download_as_bytes", "NotFound"} }

\* The exception an SDK call raises: exceptions.NotFound when the fault is a
\* missing bucket or object, a plain Exception otherwise.
SdkRaise(call, faults) == IF "NotFound" \in faults THEN NotFound(call) ELSE SdkError(call)

\* The body of the try: the value returned or the exception raised.
ViewBody(filename, faults) ==
    IF "blob.exists" \in faults
    THEN [exc |-> SdkError("blob.exists"), value |-> NoExc]
    ELSE IF ~exists(source, filename)
    THEN [exc |-> HTTPException(404, Detail("Invoice file not found in source bucket",
                                            ValueError("", filename))),
          value |-> NoExc]
    ELSE IF "blob.download_as_bytes" \in faults
    THEN [exc |-> SdkRaise("blob.download_as_bytes", faults), value |-> NoExc]
    ELSE [exc |-> NoExc,
          value |-> [file_bytes |-> source[filename], filename |-> filename]]

\* except exceptions.NotFound: 404; except Exception as e: 500.  An
\* HTTPException raised in the try is an Exception and not a NotFound.
ViewExcept(e) ==
    IF e.type = "NotFound"
    THEN HTTPException(404, Detail("Source bucket not found.", NoExc))
    ELSE HTTPException(500, Detail("An unexpected error occurred: ", e))

get_invoice_file(filename, faults) ==
    LET b == ViewBody(filename \o <<".", "pdf">>, faults)
    IN  IF b.exc = NoExc THEN Return(b.value) ELSE Raise(ViewExcept(b.exc))

GetInvoiceFile ==
    \E filename \in ViewNames, faults \in ViewFaults :
        /\ resp' = get_invoice_file(filename, faults)
        /\ req' = [op |-> "get_invoice_file", filename |-> filename, faults |-> faults]
        /\ UNCHANGED <<source, target, invoices, sessions, nextId, now>>

----------------------------------------------------------------------------
(* DELETE /delete-invoice/{filename} *)

DeleteCalls == { "source_blob.exists", "source_blob.delete",
                 "target_blob.exists", "target_blob.delete",
                 "doc_ref.get", "doc_ref.delete" }

\* The handler stops at the first SDK call that raises.
DeleteFaults == { {} } \cup { {call} : call \in DeleteCalls }

\* str.rfind, 1-based: the last index of tok in p, 0 when there is none.
rfind(p, tok) ==
    LET at == { i \in 1..Len(p) : p[i] = tok }
    IN  IF at = {} THEN 0 ELSE CHOOSE i \in at : \A j \in at : j <= i

splitext_FirstDot(p) ==
    LET at == { i \in 1..Len(p) : p[i] = "." /\ i > 1 }
        dotIndex == IF at = {} THEN 0 ELSE CHOOSE i \in at : \A j \in at : i <= j
    IN  IF dotIndex > 0
        THEN <<SubSeq(p, 1, dotIndex - 1), SubSeq(p, dotIndex, Len(p))>>
        ELSE <<p, <<>>>>

\* os.path.splitext: split at the last dot, unless only dots precede it.
splitext(p) ==
    LET dotIndex == rfind(p, ".")
    IN  IF dotIndex > 0 /\ \E i \in 1..(dotIndex - 1) : p[i] # "."
        THEN <<SubSeq(p, 1, dotIndex - 1), SubSeq(p, dotIndex, Len(p))>>
        ELSE <<p, <<>>>>

JsonFilename(filename) == splitext(filename)[1] \o <<".", "json">>

\* if x.exists(): x.delete(); deleted = True
\* The store after it, the flag, and the exception when a call raised.
DeleteIfExists(store, k, existsCall, deleteCall, faults) ==
    IF existsCall \in faults
    THEN [store |-> store, deleted |-> FALSE, exc |-> SdkError(existsCall)]
    ELSE IF ~exists(store, k)
    THEN [store |-> store, deleted |-> FALSE, exc |-> NoExc]
    ELSE IF deleteCall \in faults
    THEN [store |-> store, deleted |-> FALSE, exc |-> SdkError(deleteCall)]
    ELSE [store |-> Remove(store, k), deleted |-> TRUE, exc |-> NoExc]

NotAttempted(store) == [store |-> store, deleted |-> FALSE, exc |-> NoExc]

\* The body of the try.
DeleteBody(filename, faults) ==
    LET s == DeleteIfExists(source, filename,
                            "source_blob.exists", "source_blob.delete", faults)
        t == IF s.exc # NoExc THEN NotAttempted(target)
             ELSE DeleteIfExists(target, JsonFilename(filename),
                                 "target_blob.exists", "target_blob.delete", faults)
        d == IF s.exc # NoExc \/ t.exc # NoExc THEN NotAttempted(invoices)
             ELSE DeleteIfExists(invoices, filename,
                                 "doc_ref.get", "doc_ref.delete", faults)
        exc == IF s.exc # NoExc THEN s.exc
               ELSE IF t.exc # NoExc THEN t.exc
               ELSE IF d.exc # NoExc THEN d.exc
               ELSE IF ~(s.deleted \/ t.deleted \/ d.deleted)
               THEN HTTPException(404, Detail("File not found in GCS or Firestore.",
                                              ValueError("", filename)))
               ELSE NoExc
    IN  [ source |-> s.store, target |-> t.store, invoices |-> d.store,
          exc |-> exc,
          value |-> [ status |-> "deleted",
                      filename |-> filename,
                      cleaned_source_gcs |-> s.deleted,
                      cleaned_target_gcs |-> t.deleted,
                      cleaned_firestore |-> d.deleted ] ]

\* except Exception as e: raise HTTPException(status_code=500, ...)
DeleteExcept(e) == HTTPException(500, Detail("An unexpected error occurred: ", e))

delete_invoice(filename, faults) ==
    LET b == DeleteBody(filename, faults)
    IN  [ source |-> b.source, target |-> b.target, invoices |-> b.invoices,
          resp |-> IF b.exc = NoExc THEN Return(b.value) ELSE Raise(DeleteExcept(b.exc)) ]

DeleteInvoice ==
    \E filename \in DeleteNames, faults \in DeleteFaults :
        LET r == delete_invoice(filename, faults)
        IN  /\ source' = r.source
            /\ target' = r.target
            /\ invoices' = r.invoices
            /\ resp' = r.resp
            /\ req' = [op |-> "delete_invoice", filename |-> filename, faults |-> faults]
            /\ UNCHANGED <<sessions, nextId, now>>

----------------------------------------------------------------------------
(* The environment: the external processing pipeline and the clock *)

PipelineStatuses == { "COMPLETED" }

\* The pipeline writes a JSON result into the target bucket.
PipelineWriteResult ==
    \E name \in TargetNames :
        /\ target' = Put(target, name, "json")
        /\ req' = Idle
        /\ resp' = Idle
        /\ UNCHANGED <<source, invoices, sessions, nextId, now>>

\* The pipeline updates the status of an invoice document.
PipelineSetStatus ==
    \E filename \in DOMAIN invoices, status \in PipelineStatuses :
        /\ invoices' = [invoices EXCEPT ![filename].status = status,
                                        ![filename].last_modified = now]
        /\ req' = Idle
        /\ resp' = Idle
        /\ UNCHANGED <<source, target, sessions, nextId, now>>

Tick ==
    /\ now < MaxTime
    /\ now' = now + 1
    /\ req' = Idle
    /\ resp' = Idle
    /\ UNCHANGED <<source, target, invoices, sessions, nextId>>

----------------------------------------------------------------------------
(* The ADK session service and runner, as api.py uses them *)

\* Optional[str]: None is the empty sequence, a value x is <<x>>.
None == <<>>

Some(x) == <<x>>

\* Session ids are uuid4 strings: fresh ones are numbered from 1, and 0 stands
\* for the empty string, which names no session.
EmptyId == 0

\* An event of a session: content.role, what content.parts[0] holds, and
\* content.parts[0].text (None unless the part is text).
UserMessage(text) == [role |-> "user", part |-> "text", text |-> Some(text)]

ModelText(text) == [role |-> "model", part |-> "text", text |-> Some(text)]

FunctionCall == [role |-> "model", part |-> "function_call", text |-> None]

FunctionResponse == [role |-> "user", part |-> "function_response", text |-> None]

\* Event.is_final_response(): no function call, no function response, not
\* partial (events stored in a session never are).  The author is not read.
is_final_response(event) == event.part = "text"

\* session_service.get_session: the session of that id and user, or None.
get_session(session_id, user_id) ==
    IF session_id \in DOMAIN sessions /\ sessions[session_id].user_id = user_id
    THEN Some(session_id)
    ELSE None

\* session_service.list_sessions: the ids of the user's sessions.
list_sessions(user_id) ==
    { id \in DOMAIN sessions : sessions[id].user_id = user_id }

\* session_service.create_session: a session with a fresh id and no event.
create_session(db, id, user_id) ==
    Put(db, id, [user_id |-> user_id, events |-> <<>>, last_update_time |-> now])

\* session_service.append_event, for each event in turn.
append_events(db, id, events) ==
    IF events = <<>> THEN db
    ELSE [db EXCEPT ![id].events = @ \o events, ![id].last_update_time = now]

\* session_service.delete_session: deletes the user's session of that id, if any.
delete_session(db, session_id, user_id) ==
    IF session_id \in DOMAIN db /\ db[session_id].user_id = user_id
    THEN Remove(db, session_id)
    ELSE db

\* Runner.run_async: the events one run stores in the session, the user's
\* message first, and whether it ends by raising.
RunOutcomes == { "reply", "tool_reply", "llm_error", "runner_error" }

Run(outcome, message, reply) ==
    CASE outcome = "reply" ->
            [stored |-> <<UserMessage(message), ModelText(reply)>>, raises |-> FALSE]
      [] outcome = "tool_reply" ->
            [stored |-> <<UserMessage(message), FunctionCall, FunctionResponse,
                          ModelText(reply)>>, raises |-> FALSE]
      [] outcome = "llm_error" ->
            [stored |-> <<UserMessage(message)>>, raises |-> TRUE]
      [] outcome = "runner_error" ->
            [stored |-> <<>>, raises |-> TRUE]

\* The events the caller of run_async sees: those stored after the user's message.
Yielded(run) == IF run.stored = <<>> THEN <<>> ELSE Tail(run.stored)

----------------------------------------------------------------------------
(* POST /chat/ *)

Users == { "u1", "u2" }
Messages == { "q1" }
Replies == { "r1" }
SessionIds == 1..MaxSessions
RequestSessionIds == { None } \cup { Some(id) : id \in SessionIds \cup {EmptyId} }
ChatFaults == { {}, {"session_service"} }

DefaultReply == "Sorry, I encountered an issue and could not get a response."

\* if request.session_id: the truth value of an Optional[str].
Truthy(session_id) == session_id # None /\ session_id[1] # EmptyId

\* async for event in events: the text of the last final response yielded
\* (the runner yields what it stored after the user's message).
RECURSIVE FinalReply(_, _)
FinalReply(events, final_reply) ==
    IF events = <<>> THEN final_reply
    ELSE FinalReply(Tail(events),
                    IF is_final_response(Head(events)) /\ Head(events).text # None
                    THEN Head(events).text[1]
                    ELSE final_reply)

ResolveSession_AlwaysNew(request) == [id |-> nextId + 1, created |-> TRUE]

\* The session the request runs in: the one it names, or a new one.
ResolveSession(request) ==
    IF Truthy(request.session_id)
    THEN LET session == get_session(request.session_id[1], request.user_id)
         IN  IF session = None
             THEN [id |-> nextId + 1, created |-> TRUE]
             ELSE [id |-> session[1], created |-> FALSE]
    ELSE [id |-> nextId + 1, created |-> TRUE]

\* The body of the try.
ChatBody(request, outcome, reply, faults) ==
    IF "session_service" \in faults
    THEN [sessions |-> sessions, nextId |-> nextId,
          exc |-> SdkError("session_service"), value |-> NoExc]
    ELSE
    LET session == ResolveSession(request)
        db1 == IF session.created
               THEN create_session(sessions, session.id, request.user_id)
               ELSE sessions
        run == Run(outcome, request.message, reply)
        db2 == append_events(db1, session.id, run.stored)
    IN  [ sessions |-> db2,
          nextId |-> IF session.created THEN nextId + 1 ELSE nextId,
          exc |-> IF run.raises THEN SdkError("run_async") ELSE NoExc,
          value |-> [ reply |-> FinalReply(Yielded(run), DefaultReply),
                      session_id |-> session.id ] ]

\* except Exception as e: raise HTTPException(status_code=500, ...)
ChatExcept(e) ==
    HTTPException(500, Detail("An internal error occurred in the chat service.", NoExc))

handle_chat_message(request, outcome, reply, faults) ==
    LET b == ChatBody(request, outcome, reply, faults)
    IN  [ sessions |-> b.sessions, nextId |-> b.nextId,
          resp |-> IF b.exc = NoExc THEN Return(b.value) ELSE Raise(ChatExcept(b.exc)) ]

\* What the bounds leave room for: a new session, and the events of the run.
ChatFits(request, outcome, reply) ==
    LET session == ResolveSession(request)
        stored == Len(Run(outcome, request.message, reply).stored)
    IN  IF session.created
        THEN nextId < MaxSessions /\ stored <= MaxEvents
        ELSE Len(sessions[session.id].events) + stored <= MaxEvents

HandleChatMessage ==
    \E user_id \in Users, message \in Messages, session_id \in RequestSessionIds,
       outcome \in RunOutcomes, reply \in Replies, faults \in ChatFaults :
        LET request == [message |-> message, user_id |-> user_id,
                        session_id |-> session_id]
            r == handle_chat_message(request, outcome, reply, faults)
        IN  /\ ChatFits(request, outcome, reply)
            /\ sessions' = r.sessions
            /\ nextId' = r.nextId
            /\ resp' = r.resp
            /\ req' = [ op |-> "handle_chat_message", request |-> request,
                        outcome |-> outcome, faults |-> faults ]
            /\ UNCHANGED <<source, target, invoices, now>>

----------------------------------------------------------------------------
(* GET /chat/history/{user_id} *)

IndexError == [type |-> "IndexError", text |-> "list index out of range", arg |-> <<>>]

ValidationError == [type |-> "ValidationError", text |-> "last_message", arg |-> <<>>]

\* The orders in which list_sessions may return the sessions of S.
Orders(S) ==
    { order \in [1..Cardinality(S) -> S] :
        \A i, j \in 1..Cardinality(S) : i # j => order[i] # order[j] }

\* The body of the loop for one session: events[-1], events[-2], the text of
\* the last event when the model wrote it and of the one before otherwise.
\* SessionSummary.last_message is a str: None does not validate.
Summary(id) ==
    LET events == sessions[id].events
        n == Len(events)
    IN  IF n < 2 THEN [exc |-> IndexError, value |-> NoExc]
        ELSE LET last_event == events[n]
                 last_but_event == events[n - 1]
                 lastmessage == IF last_event.role = "model"
                                THEN last_event.text
                                ELSE last_but_event.text
             IN  IF lastmessage = None
                 THEN [exc |-> ValidationError, value |-> NoExc]
                 ELSE [exc |-> NoExc,
                       value |-> [ id |-> id,
                                   last_message |-> lastmessage[1],
                                   last_updated |-> sessions[id].last_update_time ]]

\* The loop: the summaries in the order listed, or the first exception.
RECURSIVE Summaries(_)
Summaries(order) ==
    IF order = <<>> THEN [exc |-> NoExc, value |-> <<>>]
    ELSE LET one == Summary(Head(order))
         IN  IF one.exc # NoExc THEN [exc |-> one.exc, value |-> <<>>]
             ELSE LET rest == Summaries(Tail(order))
                  IN  IF rest.exc # NoExc THEN rest
                      ELSE [exc |-> NoExc, value |-> <<one.value>> \o rest.value]

\* list.sort(key=last_updated, reverse=True): stable, so summaries of equal
\* last_updated keep the order they were listed in.
RECURSIVE SortByLastUpdatedDesc(_)
SortByLastUpdatedDesc(summaries) ==
    IF summaries = <<>> THEN <<>>
    ELSE LET n == Len(summaries)
             sorted == SortByLastUpdatedDesc(SubSeq(summaries, 1, n - 1))
             x == summaries[n]
             before == { i \in 1..Len(sorted) : sorted[i].last_updated >= x.last_updated }
             k == Cardinality(before)
         IN  SubSeq(sorted, 1, k) \o <<x>> \o SubSeq(sorted, k + 1, Len(sorted))

\* except Exception as e: raise HTTPException(status_code=500, ...)
HistoryExcept(e) == HTTPException(500, Detail("Failed to list sessions: ", e))

get_session_history_for_user(user_id, order, faults) ==
    IF "session_service" \in faults
    THEN Raise(HistoryExcept(SdkError("session_service")))
    ELSE LET b == Summaries(order)
         IN  IF b.exc = NoExc
             THEN Return(SortByLastUpdatedDesc(b.value))
             ELSE Raise(HistoryExcept(b.exc))

GetSessionHistoryForUser ==
    \E user_id \in Users, faults \in ChatFaults :
        \E order \in Orders(list_sessions(user_id)) :
            /\ resp' = get_session_history_for_user(user_id, order, faults)
            /\ req' = [ op |-> "get_session_history_for_user", user_id |-> user_id,
                        order |-> order, faults |-> faults ]
            /\ UNCHANGED <<source, target, invoices, sessions, nextId, now>>

----------------------------------------------------------------------------
(* GET /chat/history/session/{session_id} *)

\* for event in events: the two ifs of the loop, in turn.
RECURSIVE MessagesOf(_)
MessagesOf(events) ==
    IF events = <<>> THEN <<>>
    ELSE LET event == Head(events)
             asUser == IF event.role = "user" /\ event.text # None
                       THEN <<event.text[1]>> ELSE <<>>
             asFinal == IF is_final_response(event) /\ event.text # None
                        THEN <<event.text[1]>> ELSE <<>>
         IN  asUser \o asFinal \o MessagesOf(Tail(events))

\* The body of the try.
MessagesBody(session_id, user_id, faults) ==
    IF "session_service" \in faults
    THEN [exc |-> SdkError("session_service"), value |-> NoExc]
    ELSE LET session == get_session(session_id, user_id)
         IN  IF session = None
             THEN [exc |-> HTTPException(404, Detail("Session not found.", NoExc)),
                   value |-> NoExc]
             ELSE [exc |-> NoExc,
                   value |-> [ id |-> session[1],
                               messages |-> MessagesOf(sessions[session[1]].events) ]]

\* except Exception as e: raise HTTPException(status_code=500, ...).  The
\* HTTPException raised in the try is an Exception too.
MessagesExcept(e) == HTTPException(500, Detail("Failed to get session messages: ", e))

get_messages_for_session(session_id, user_id, faults) ==
    LET b == MessagesBody(session_id, user_id, faults)
    IN  IF b.exc = NoExc THEN Return(b.value) ELSE Raise(MessagesExcept(b.exc))

GetMessagesForSession ==
    \E session_id \in SessionIds, user_id \in Users, faults \in ChatFaults :
        /\ resp' = get_messages_for_session(session_id, user_id, faults)
        /\ req' = [ op |-> "get_messages_for_session", session_id |-> session_id,
                    user_id |-> user_id, faults |-> faults ]
        /\ UNCHANGED <<source, target, invoices, sessions, nextId, now>>

----------------------------------------------------------------------------
(* DELETE /chat/history/session/{session_id} *)

delete_chat_session(session_id, user_id, faults) ==
    IF "session_service" \in faults
    THEN [ sessions |-> sessions,
           resp |-> Raise(HTTPException(500, Detail("Failed to delete session: ",
                                                    SdkError("session_service")))) ]
    ELSE [ sessions |-> delete_session(sessions, session_id, user_id),
           resp |-> [code |-> 204, body |-> NoExc] ]

DeleteChatSession ==
    \E session_id \in SessionIds, user_id \in Users, faults \in ChatFaults :
        LET r == delete_chat_session(session_id, user_id, faults)
        IN  /\ sessions' = r.sessions
            /\ resp' = r.resp
            /\ req' = [ op |-> "delete_chat_session", session_id |-> session_id,
                        user_id |-> user_id, faults |-> faults ]
            /\ UNCHANGED <<source, target, invoices, nextId, now>>

----------------------------------------------------------------------------
(* The invoice endpoints *)

Init ==
    /\ source = Empty
    /\ target = Empty
    /\ invoices = Empty
    /\ sessions = Empty
    /\ nextId = 0
    /\ now = 0
    /\ req = Idle
    /\ resp = Idle

\* No invoice endpoint reads a timestamp back: the clock stands still here.
Next ==
    \/ UploadInvoice
    \/ GetInvoiceFile
    \/ DeleteInvoice
    \/ PipelineWriteResult
    \/ PipelineSetStatus

Spec == Init /\ [][Next]_vars

----------------------------------------------------------------------------
(* The chat endpoints *)

ChatNext ==
    \/ HandleChatMessage
    \/ GetSessionHistoryForUser
    \/ GetMessagesForSession
    \/ DeleteChatSession
    \/ Tick

ChatSpec == Init /\ [][ChatNext]_vars

----------------------------------------------------------------------------
(* The chat agent's tool get_total_amount_for_completed_invoices
   (src/chatassistant/tools.py) *)

Amounts == { 1, 2 }
Currencies == { "INR", "USD" }
PromotedFields == { "total_amount_num", "currency" }

\* The pipeline promotes a field of the extracted invoice into its document.
PipelinePromoteField ==
    \E filename \in DOMAIN invoices, field \in PromotedFields :
        \E value \in IF field = "currency" THEN Currencies ELSE Amounts :
            /\ invoices' = [invoices EXCEPT ![filename] = Put(@, field, value)]
            /\ req' = Idle
            /\ resp' = Idle
            /\ UNCHANGED <<source, target, sessions, nextId, now>>

\* dict.get(key, default)
Get(data, key, default) == IF key \in DOMAIN data THEN data[key] ELSE default

\* db.collection("invoices").where("status", "==", "COMPLETED"): the ids.
CompletedInvoices == { id \in DOMAIN invoices : invoices[id].status = "COMPLETED" }

\* for doc in docs: total and currency_set after the documents listed.
RECURSIVE TotalLoop(_, _, _)
TotalLoop(docs, total, currency_set) ==
    IF docs = <<>> THEN [total |-> total, currency_set |-> currency_set]
    ELSE LET data == invoices[Head(docs)]
         IN  TotalLoop(Tail(docs),
                       total + Get(data, "total_amount_num", 0),
                       IF "currency" \in DOMAIN data /\ data.currency # ""
                       THEN currency_set \cup {data.currency}
                       ELSE currency_set)

ToolFaults == { {}, {"db"} }

\* The dict the tool returns; docs is the order the query streams in.
get_total_amount_for_completed_invoices(docs, faults) ==
    IF "db" \in faults
    THEN [error |-> "Database not connected"]
    ELSE LET r == TotalLoop(docs, 0, {})
         IN  IF r.currency_set = {}
             THEN [total_amount |-> 0, currency |-> "N/A"]
             ELSE [ total_amount |-> r.total,
                    currency |-> IF Cardinality(r.currency_set) = 1
                                 THEN CHOOSE c \in r.currency_set : TRUE
                                 ELSE "MIXED" ]

GetTotalAmountForCompletedInvoices ==
    \E docs \in Orders(CompletedInvoices), faults \in ToolFaults :
        /\ resp' = get_total_amount_for_completed_invoices(docs, faults)
        /\ req' = [op |-> "get_total_amount_for_completed_invoices", faults |-> faults]
        /\ UNCHANGED <<source, target, invoices, sessions, nextId, now>>

ToolNext ==
    \/ UploadInvoice
    \/ PipelineSetStatus
    \/ PipelinePromoteField
    \/ GetTotalAmountForCompletedInvoices

ToolSpec == Init /\ [][ToolNext]_vars

----------------------------------------------------------------------------
(* Claims about the invoice endpoints *)

\* C1: when upload_invoice succeeds for a filename f, the source bucket holds
\* a blob named f, the collection holds a document f with filename = f,
\* status = "UPLOADED" and gcs_source_uri = "gs://<source bucket>/f", and the
\* response carries status "success", that gcs_uri and f.
C1_UploadSuccess ==
    (req.op = "upload_invoice" /\ resp.code = 200) =>
        LET f == req.filename
            uri == <<"gs://", "source-bucket", "/">> \o f
        IN  /\ f \in DOMAIN source
            /\ source[f] = req.data
            /\ f \in DOMAIN invoices
            /\ invoices[f].filename = f
            /\ invoices[f].status = "UPLOADED"
            /\ invoices[f].gcs_source_uri = uri
            /\ resp.body = [status |-> "success", gcs_uri |-> uri, filename |-> f]

C1_Witness ==
    /\ req.op = "upload_invoice"
    /\ resp.code = 200
    /\ req.filename = <<"a", ".", "b", ".", "pdf">>

\* C2: if a blob named f is in the source bucket when upload_invoice(f) runs,
\* the request is rejected with HTTP 400 and neither bucket nor the
\* collection changes.
C2_ExistingBlobRejected ==
    [][ (req'.op = "upload_invoice" /\ req'.filename \in DOMAIN source) =>
            /\ resp'.code = 400
            /\ source' = source
            /\ target' = target
            /\ invoices' = invoices ]_vars

C2_Witness ==
    /\ req.op = "upload_invoice"
    /\ req.faults = {}
    /\ resp.code = 400
    /\ resp.body.detail.exc.type = "ValueError"
    /\ req.filename \in DOMAIN source
    /\ source[req.filename] # req.data
    /\ req.filename \in DOMAIN invoices

\* C3 as stated: if the Firestore write of upload_invoice(f) raises after the
\* blob was uploaded, the request fails with HTTP 400 and both stores are as
\* they were before the request.
C3_FailedWriteLeavesStores ==
    [][ ( /\ req'.op = "upload_invoice"
          /\ "invoice_ref.set" \in req'.faults
          /\ req'.filename \notin DOMAIN source ) =>
            /\ resp'.code = 400
            /\ source' = source
            /\ invoices' = invoices ]_vars

\* C3 amended: if the Firestore write of upload_invoice(f) raises after the
\* blob was uploaded, the request fails with HTTP 400 and the collection is
\* unchanged; the source bucket is as it was before the request when the
\* rollback's blob.delete() succeeds, and holds the uploaded blob f on top of
\* what it held when blob.delete() raises too.
C3_RollbackUnlessDeleteFails ==
    [][ ( /\ req'.op = "upload_invoice"
          /\ "invoice_ref.set" \in req'.faults
          /\ req'.filename \notin DOMAIN source ) =>
            /\ resp'.code = 400
            /\ invoices' = invoices
            /\ target' = target
            /\ IF "blob.delete" \in req'.faults
               THEN /\ DOMAIN source' = DOMAIN source \cup {req'.filename}
                    /\ source'[req'.filename] = req'.data
                    /\ \A k \in DOMAIN source : source'[k] = source[k]
               ELSE source' = source ]_vars

C3_Witness ==
    /\ req.op = "upload_invoice"
    /\ req.faults = {"invoice_ref.set"}
    /\ resp.code = 400
    /\ resp.body.detail.exc.arg = <<"invoice_ref.set">>
    /\ req.filename \notin DOMAIN source
    /\ source # Empty

\* The name delete_invoice looks up in the target bucket, case by case.
ExpectedJson(f) ==
    CASE f = <<"a", ".", "pdf">> -> <<"a", ".", "json">>
      [] f = <<"a", ".", "b", ".", "pdf">> -> <<"a", ".", "b", ".", "json">>
      [] f = <<".", "pdf">> -> <<".", "pdf", ".", "json">>

\* C4: when delete_invoice(f) returns its success response, the source bucket
\* has no blob f, the target bucket has no blob "<stem of f>.json" and the
\* collection has no document f; each cleaned_* flag is true exactly when
\* that store held the item before the call.
C4_DeleteSuccess ==
    [][ (req'.op = "delete_invoice" /\ resp'.code = 200) =>
            LET f == req'.filename
                j == ExpectedJson(f)
            IN  /\ f \notin DOMAIN source'
                /\ j \notin DOMAIN target'
                /\ f \notin DOMAIN invoices'
                /\ resp'.body.status = "deleted"
                /\ resp'.body.filename = f
                /\ resp'.body.cleaned_source_gcs = (f \in DOMAIN source)
                /\ resp'.body.cleaned_target_gcs = (j \in DOMAIN target)
                /\ resp'.body.cleaned_firestore = (f \in DOMAIN invoices) ]_vars

C4_Witness ==
    /\ req.op = "delete_invoice"
    /\ resp.code = 200
    /\ req.filename = <<"a", ".", "b", ".", "pdf">>
    /\ resp.body.cleaned_source_gcs
    /\ resp.body.cleaned_target_gcs
    /\ ~resp.body.cleaned_firestore
    /\ <<"a", ".", "json">> \in DOMAIN target

\* C5: if delete_invoice(f) finds f in none of the source bucket, the target
\* bucket and the collection, it responds with HTTP 404.
C5_DeleteNotFound404 ==
    [][ ( /\ req'.op = "delete_invoice"
          /\ req'.faults = {}
          /\ req'.filename \notin DOMAIN source
          /\ ExpectedJson(req'.filename) \notin DOMAIN target
          /\ req'.filename \notin DOMAIN invoices ) =>
            resp'.code = 404 ]_vars

\* C6: get_invoice_file(filename) responds with HTTP 404 when the source
\* bucket has no blob "<filename>.pdf", and with the blob's bytes when it has.
C6_ViewFile ==
    (req.op = "get_invoice_file" /\ req.faults = {}) =>
        LET name == req.filename \o <<".", "pdf">>
        IN  IF name \in DOMAIN source
            THEN resp.code = 200 /\ resp.body.file_bytes = source[name]
            ELSE resp.code = 404

----------------------------------------------------------------------------
(* Claims about the chat endpoints *)

\* Whether the user has a session of that id.
HasSession(db, session_id, user_id) ==
    session_id \in DOMAIN db /\ db[session_id].user_id = user_id

\* C7: get_messages_for_session(session_id, user_id) responds with HTTP 404
\* "Session not found." when the user has no session of that id.
C7_SessionNotFound404 ==
    ( /\ req.op = "get_messages_for_session"
      /\ req.faults = {}
      /\ ~HasSession(sessions, req.session_id, req.user_id) ) =>
        /\ resp.code = 404
        /\ resp.body.detail.prefix = "Session not found."

\* C8: when handle_chat_message answers a request whose session_id names a
\* session of its user_id, the response carries that session_id, no session
\* is created and the run's events extend that session, the user's message
\* first; when session_id is null or names no session of that user, exactly
\* one session is created, for that user, and the response carries its id.
C8_ContinueOrCreate ==
    [][ (req'.op = "handle_chat_message" /\ resp'.code = 200) =>
            LET request == req'.request
                sid == request.session_id
            IN  IF sid # <<>> /\ HasSession(sessions, sid[1], request.user_id)
                THEN /\ resp'.body.session_id = sid[1]
                     /\ DOMAIN sessions' = DOMAIN sessions
                     /\ \A id \in DOMAIN sessions \ {sid[1]} : sessions'[id] = sessions[id]
                     /\ LET old == sessions[sid[1]].events
                            new == sessions'[sid[1]].events
                        IN  /\ Len(new) > Len(old)
                            /\ SubSeq(new, 1, Len(old)) = old
                            /\ new[Len(old) + 1].role = "user"
                            /\ new[Len(old) + 1].text = <<request.message>>
                ELSE /\ Cardinality(DOMAIN sessions' \ DOMAIN sessions) = 1
                     /\ DOMAIN sessions \subseteq DOMAIN sessions'
                     /\ \A id \in DOMAIN sessions : sessions'[id] = sessions[id]
                     /\ resp'.body.session_id \in DOMAIN sessions' \ DOMAIN sessions
                     /\ sessions'[resp'.body.session_id].user_id = request.user_id ]_vars

C8_Witness ==
    /\ req.op = "handle_chat_message"
    /\ resp.code = 200
    /\ req.request.session_id = <<1>>
    /\ resp.body.session_id = 1
    /\ Len(sessions[1].events) = 4
    /\ Cardinality(DOMAIN sessions) = 2

\* C9: get_session_history_for_user(user_id) returns exactly one summary per
\* session the user has, whatever number of events each session holds,
\* ordered by last_updated descending.
C9_HistoryListsEverySession ==
    (req.op = "get_session_history_for_user" /\ req.faults = {}) =>
        /\ resp.code = 200
        /\ Len(resp.body) = Cardinality({ id \in DOMAIN sessions :
                                            sessions[id].user_id = req.user_id })
        /\ { resp.body[i].id : i \in 1..Len(resp.body) }
              = { id \in DOMAIN sessions : sessions[id].user_id = req.user_id }
        /\ \A i \in 1..Len(resp.body) :
              resp.body[i].last_updated = sessions[resp.body[i].id].last_update_time
        /\ \A i, j \in 1..Len(resp.body) :
              i < j => resp.body[i].last_updated >= resp.body[j].last_updated

\* The history a session's events stand for: the text of each user message
\* and of each final agent response, once, in event order.
RECURSIVE ExpectedMessages(_)
ExpectedMessages(events) ==
    IF events = <<>> THEN <<>>
    ELSE LET event == Head(events)
             counts == \/ event = [role |-> "user", part |-> "text", text |-> event.text]
                       \/ event = [role |-> "model", part |-> "text", text |-> event.text]
         IN  (IF counts /\ event.text # <<>> THEN event.text ELSE <<>>)
                 \o ExpectedMessages(Tail(events))

\* C10: the messages get_messages_for_session returns are, in event order, the
\* text of each user message and of each final agent response exactly once;
\* events that are neither contribute nothing.
C10_MessagesOncePerEvent ==
    (req.op = "get_messages_for_session" /\ resp.code = 200) =>
        /\ resp.body.id = req.session_id
        /\ resp.body.messages = ExpectedMessages(sessions[req.session_id].events)

----------------------------------------------------------------------------
(* Claims about the chat agent's tools *)

\* total_amount_num of a document, 0 when it has none.
AmountOf(id) ==
    IF "total_amount_num" \in DOMAIN invoices[id] THEN invoices[id].total_amount_num ELSE 0

RECURSIVE SumOver(_)
SumOver(ids) ==
    IF ids = {} THEN 0
    ELSE LET id == CHOOSE x \in ids : TRUE
         IN  AmountOf(id) + SumOver(ids \ {id})

\* C11: get_total_amount_for_completed_invoices returns as total_amount the
\* sum of total_amount_num (missing counted as 0) over the invoices whose
\* status is "COMPLETED", whatever the collection holds; currency is the
\* single currency present among them, "MIXED" when there are several and
\* "N/A" when there is none.
C11_TotalOfCompleted ==
    (req.op = "get_total_amount_for_completed_invoices" /\ req.faults = {}) =>
        LET completed == { id \in DOMAIN invoices : invoices[id].status = "COMPLETED" }
            present == { invoices[id].currency :
                            id \in { x \in completed : "currency" \in DOMAIN invoices[x] } }
        IN  /\ resp.total_amount = SumOver(completed)
            /\ resp.currency = IF present = {} THEN "N/A"
                               ELSE IF \E c \in present : present = {c}
                               THEN CHOOSE c \in present : TRUE
                               ELSE "MIXED"

====
